---- MODULE Spec2Model ----
(***************************************************************************)
(* Model of VulkanExamples/ComputeNBody/ComputeNBody.cpp: the host thread  *)
(* of VulkanExample (prepareForRendering, the render()/draw() loop, the    *)
(* destructor), the command buffers it records, and the device queues      *)
(* that execute the submitted batches under the semaphores the host wires  *)
(* between them; the particle initializer of prepareStorageBuffers and one *)
(* cycle of the compute pass are followed in specifications of their own.  *)
(***************************************************************************)
EXTENDS Integers, Sequences, FiniteSets, TLC

\* ------------------------------------------------------------------ bounds
MaxFrames == 4          \* render() calls the host makes at most
LongFrames == 100       \* render() calls of the long-run specification
MaxAhead == 2           \* frames the host may have submitted and not yet presented
NumFamilies == 2        \* queue-family identifiers are 0 .. NumFamilies-1
MaxPerAttractor == 130  \* particles per attractor drawn by the dispatch specification
SwapchainImages == 2    \* draw command buffers (one per swapchain image)
MaxFrameTimer == 2      \* frame times the host measures are 1 .. MaxFrameTimer
MaxPassParticles == 2   \* particles in the arrays the compute pass is run on
MaxCoordinate == 1      \* their x coordinates are 0 .. MaxCoordinate
MaxInitPerAttractor == 3 \* particles per attractor the initializer is run with
MaxTime == 2            \* time(nullptr) returns 1 .. MaxTime
MaxSample == 2          \* rndDist returns -MaxSample .. MaxSample
MaxEarlyCalls == 2      \* render() calls the framework makes before prepared is set

\* ------------------------------------------------------- program constants
WorkgroupSize == 256
AttractorCount == 6
PARTICLES_PER_ATTRACTOR == 4 * 1024
VK_QUEUE_FAMILY_IGNORED == -1

Families == 0 .. (NumFamilies - 1)

\* The four semaphores draw() wires between the submissions.
GraphicsSemaphore == "graphics.semaphore"
ComputeSemaphore == "compute.semaphore"
PresentComplete == "semaphores.presentComplete"
RenderComplete == "semaphores.renderComplete"
Semaphores == {GraphicsSemaphore, ComputeSemaphore, PresentComplete, RenderComplete}

\* A semaphore holds the batch that signaled it, or Unsignaled.
Unsignaled == <<"unsignaled", 0>>

BatchKinds == {"upload", "prime", "compute", "graphics", "present"}

VARIABLES
    pc,                     \* position of the host thread
    prepared,               \* VulkanExampleBase::prepared
    deviceQF,               \* vulkanDevice->queueFamilyIndices
    particlesPerAttractor,  \* the PARTICLES_PER_ATTRACTOR the build was made with
    numParticles,           \* VulkanExample::numParticles
    graphics,               \* VulkanExample::graphics (queueFamilyIndex, uniformBuffer)
    compute,                \* VulkanExample::compute (queueFamilyIndex, commandBuffer,
                            \*   whether its recording succeeded, uniformData.particleCount,
                            \*   uniformBuffer)
    drawCmdBuffers,         \* the recorded draw command buffers, one per swapchain image
    currentCmdBufferIndex,  \* index of the draw command buffer of the acquired image
    frame,                  \* number of render() calls that passed the prepared test
    queues,                 \* per queue family: the batches submitted and not completed
                            \*   (queue 0 of the family: one queue for both roles when
                            \*   the family indices are equal)
    exec,                   \* per queue: 0, or the index of the command in progress
    sem,                    \* per semaphore: Unsignaled or the batch that signaled it
    imgPending,             \* images acquired whose image-available signal is outstanding
    owner,                  \* queue-family ownership of storageBuffer
    ownOps,                 \* the last two ownership operations executed on storageBuffer
    execs,                  \* the kinds of the last two compute/graphics batches started
    satisfied,              \* per kind: the frame last started and the signal its wait consumed
    done,                   \* per batch kind: number of batches completed
    destroyed,              \* objects the destructor has destroyed
    failed,                 \* some Vulkan call has returned an error
    hostOps,                \* the operations of the current render() call, in order
    paused,                 \* VulkanExampleBase::paused
    frameTimer,             \* VulkanExampleBase::frameTimer, the last frame time
    created,                \* the semaphores vkCreateSemaphore has created
    earlyCalls,             \* render() calls that returned at the prepared test
    benchmark,              \* benchmark.active
    argOrder,               \* the order the build evaluates constructor arguments in
    seedTime,               \* what time(nullptr) returns in prepareStorageBuffers
    rndEngine,              \* state of rndEngine
    particleBuffer,         \* the particle array (each Particle: pos, vel)
    written,                \* per element of particleBuffer: times the loop assigned it
    loop,                   \* the loop counters i, j of prepareStorageBuffers
    run,                    \* 1 in the first run of the program, 2 in the second
    firstRun,               \* the particle array the first run produced
    ubo,                    \* the uniform block the compute shaders read
    before                  \* the particle array when the compute pass began

vars == <<pc, prepared, deviceQF, particlesPerAttractor, numParticles, graphics,
          compute, drawCmdBuffers, currentCmdBufferIndex, frame, queues, exec, sem,
          imgPending, owner, ownOps, execs, satisfied, done, destroyed, failed,
          hostOps, paused, frameTimer, created, earlyCalls, benchmark, argOrder,
          seedTime, rndEngine, particleBuffer, written, loop, run, firstRun, ubo, before>>

initVars == <<benchmark, argOrder, seedTime, rndEngine, particleBuffer, written, loop,
              run, firstRun, ubo, before>>

gpuVars == <<queues, exec, sem, owner, ownOps, execs, satisfied, done>>

\* ------------------------------------------------------- recorded commands
Cmd(op, pipeline, srcAccess, dstAccess, srcQF, dstQF, count) ==
    [op |-> op, pipeline |-> pipeline,
     srcAccessMask |-> srcAccess, dstAccessMask |-> dstAccess,
     srcQueueFamilyIndex |-> srcQF, dstQueueFamilyIndex |-> dstQF,
     count |-> count]

BufferBarrier(srcAccess, dstAccess, srcQF, dstQF) ==
    Cmd("pipelineBarrier", "", srcAccess, dstAccess, srcQF, dstQF, 0)

\* An upload command buffer that holds the copy alone.
UploadCommandsNoRelease(g, c) ==
    <<Cmd("copyBuffer", "", "0", "0", VK_QUEUE_FAMILY_IGNORED, VK_QUEUE_FAMILY_IGNORED, 0)>>

\* vkCmdCopyBuffer, then the release barrier to the compute family if necessary.
UploadCommands(g, c) ==
    <<Cmd("copyBuffer", "", "0", "0", VK_QUEUE_FAMILY_IGNORED, VK_QUEUE_FAMILY_IGNORED, 0)>>
    \o (IF g # c
        THEN <<BufferBarrier("VERTEX_ATTRIBUTE_READ", "0", g, c)>>
        ELSE <<>>)

\* The workgroup count both vkCmdDispatch calls are recorded with.
DispatchCount(n) == n \div WorkgroupSize

\* buildComputeCommandBuffer with the acquire barrier recorded unconditionally.
ComputeCommandsAlwaysAcquire(g, c, n) ==
    <<BufferBarrier("0", "SHADER_WRITE", g, c)>>
    \o <<Cmd("dispatch", "pipelineCalculate", "0", "0",
             VK_QUEUE_FAMILY_IGNORED, VK_QUEUE_FAMILY_IGNORED, DispatchCount(n)),
         BufferBarrier("SHADER_WRITE", "SHADER_READ",
                       VK_QUEUE_FAMILY_IGNORED, VK_QUEUE_FAMILY_IGNORED),
         Cmd("dispatch", "pipelineIntegrate", "0", "0",
             VK_QUEUE_FAMILY_IGNORED, VK_QUEUE_FAMILY_IGNORED, DispatchCount(n))>>
    \o (IF g # c
        THEN <<BufferBarrier("SHADER_WRITE", "0", c, g)>>
        ELSE <<>>)

\* buildComputeCommandBuffer with the barrier between the two dispatches
\* recorded only when the queue families differ.
ComputeCommandsBarrierIfDiffer(g, c, n) ==
    (IF g # c
     THEN <<BufferBarrier("0", "SHADER_WRITE", g, c)>>
     ELSE <<>>)
    \o <<Cmd("dispatch", "pipelineCalculate", "0", "0",
             VK_QUEUE_FAMILY_IGNORED, VK_QUEUE_FAMILY_IGNORED, DispatchCount(n))>>
    \o (IF g # c
        THEN <<BufferBarrier("SHADER_WRITE", "SHADER_READ",
                             VK_QUEUE_FAMILY_IGNORED, VK_QUEUE_FAMILY_IGNORED)>>
        ELSE <<>>)
    \o <<Cmd("dispatch", "pipelineIntegrate", "0", "0",
             VK_QUEUE_FAMILY_IGNORED, VK_QUEUE_FAMILY_IGNORED, DispatchCount(n))>>
    \o (IF g # c
        THEN <<BufferBarrier("SHADER_WRITE", "0", c, g)>>
        ELSE <<>>)

\* buildComputeCommandBuffer: acquire, Calculate, barrier, Integrate, release.
ComputeCommands(g, c, n) ==
    (IF g # c
     THEN <<BufferBarrier("0", "SHADER_WRITE", g, c)>>
     ELSE <<>>)
    \o <<Cmd("dispatch", "pipelineCalculate", "0", "0",
             VK_QUEUE_FAMILY_IGNORED, VK_QUEUE_FAMILY_IGNORED, DispatchCount(n)),
         BufferBarrier("SHADER_WRITE", "SHADER_READ",
                       VK_QUEUE_FAMILY_IGNORED, VK_QUEUE_FAMILY_IGNORED),
         Cmd("dispatch", "pipelineIntegrate", "0", "0",
             VK_QUEUE_FAMILY_IGNORED, VK_QUEUE_FAMILY_IGNORED, DispatchCount(n))>>
    \o (IF g # c
        THEN <<BufferBarrier("SHADER_WRITE", "0", c, g)>>
        ELSE <<>>)

\* A draw command buffer without the release barrier at its end.
DrawCommandsNoRelease(g, c, n) ==
    (IF g # c
     THEN <<BufferBarrier("0", "VERTEX_ATTRIBUTE_READ", c, g)>>
     ELSE <<>>)
    \o <<Cmd("draw", "graphics.pipeline", "0", "0",
             VK_QUEUE_FAMILY_IGNORED, VK_QUEUE_FAMILY_IGNORED, n)>>

\* A draw command buffer with the acquire barrier recorded after the draw.
DrawCommandsAcquireAfterDraw(g, c, n) ==
    <<Cmd("draw", "graphics.pipeline", "0", "0",
          VK_QUEUE_FAMILY_IGNORED, VK_QUEUE_FAMILY_IGNORED, n)>>
    \o (IF g # c
        THEN <<BufferBarrier("0", "VERTEX_ATTRIBUTE_READ", c, g),
               BufferBarrier("VERTEX_ATTRIBUTE_READ", "0", g, c)>>
        ELSE <<>>)

\* One iteration of buildCommandBuffersForMainRendering: acquire, draw, release.
DrawCommands(g, c, n) ==
    (IF g # c
     THEN <<BufferBarrier("0", "VERTEX_ATTRIBUTE_READ", c, g)>>
     ELSE <<>>)
    \o <<Cmd("draw", "graphics.pipeline", "0", "0",
             VK_QUEUE_FAMILY_IGNORED, VK_QUEUE_FAMILY_IGNORED, n)>>
    \o (IF g # c
        THEN <<BufferBarrier("VERTEX_ATTRIBUTE_READ", "0", g, c)>>
        ELSE <<>>)

\* A buffer barrier whose two queue-family fields differ transfers ownership.
IsOwnershipTransfer(c) ==
    /\ c.op = "pipelineBarrier"
    /\ c.srcQueueFamilyIndex # c.dstQueueFamilyIndex

\* Executed on the source family it is the release, on the destination the acquire.
OwnershipOp(q, c) ==
    IF q = c.srcQueueFamilyIndex THEN "release"
    ELSE IF q = c.dstQueueFamilyIndex THEN "acquire"
    ELSE "foreign"

\* The barriers of a command buffer that name queue families.
NamesQueueFamilies(c) ==
    /\ c.op = "pipelineBarrier"
    /\ \/ c.srcQueueFamilyIndex # VK_QUEUE_FAMILY_IGNORED
       \/ c.dstQueueFamilyIndex # VK_QUEUE_FAMILY_IGNORED

OwnershipBarriers(cmds) == {i \in 1 .. Len(cmds) : NamesQueueFamilies(cmds[i])}

\* ------------------------------------------------------------ submissions
Batch(kind, n, wait, signal, cmds, valid) ==
    [kind |-> kind, frame |-> n, wait |-> wait, signal |-> signal,
     cmds |-> cmds, valid |-> valid]

\* A priming submission that signals no semaphore.
PrimingSignalsNothing == {}

\* A priming submission that signals compute.semaphore as well.
PrimingSignalsBoth == {GraphicsSemaphore, ComputeSemaphore}

\* prepareGraphicPass: the empty submission signals graphics.semaphore.
PrimingSignalSemaphores == {GraphicsSemaphore}

\* A compute submission that waits on no semaphore.
ComputeWaitsOnNothing == {}

\* draw(): computeSubmitInfo.pWaitSemaphores / pSignalSemaphores.
ComputeWaitSemaphores == {GraphicsSemaphore}

ComputeSignalSemaphores == {ComputeSemaphore}

\* A graphics submission that does not wait for the compute pass.
GraphicsWaitsOnImageOnly == {PresentComplete}

\* draw(): graphicsWaitSemaphores / graphicsSignalSemaphores.
GraphicsWaitSemaphores == {ComputeSemaphore, PresentComplete}

\* A graphics submission that does not signal graphics.semaphore.
GraphicsSignalsRenderCompleteOnly == {RenderComplete}

GraphicsSignalSemaphores == {GraphicsSemaphore, RenderComplete}

Role(q) ==
    IF q = graphics.queueFamilyIndex THEN "Graphics"
    ELSE IF q = compute.queueFamilyIndex THEN "Compute"
    ELSE "Other"

AllObjects ==
    {"graphics.uniformBuffer", "graphics.pipeline", "graphics.pipelineLayout",
     "graphics.descriptorSetLayout", "graphics.semaphore",
     "compute.uniformBuffer", "compute.commandPool", "compute.semaphore",
     "compute.descriptorSetLayout", "compute.pipelineLayout",
     "compute.pipelineCalculate", "compute.pipelineIntegrate",
     "storageBuffer", "textures.gradient", "textures.particle"}

\* ------------------------------------------------------------------- Init
\* compute.uniformData as constructed, in thousandths.
DefaultUniformData ==
    [deltaT |-> 0, particleCount |-> 0, gravity |-> 2, power |-> 750, soften |-> 50]

\* The particle array and the uniform block of a program whose particle
\* initializer and compute shaders are not followed.
InitializerNotRun ==
    /\ benchmark = FALSE
    /\ argOrder = "leftToRight"
    /\ seedTime = 0
    /\ rndEngine = 0
    /\ particleBuffer = <<>>
    /\ written = <<>>
    /\ loop = [i |-> 0, j |-> 0]
    /\ run = 1
    /\ firstRun = [time |-> 0, particleBuffer |-> <<>>]
    /\ ubo = DefaultUniformData
    /\ before = <<>>

InitWith(ppaSet) ==
    /\ pc = "prepareForRendering"
    /\ prepared = FALSE
    /\ deviceQF \in [graphicIndex : Families, computeIndex : Families]
    /\ particlesPerAttractor \in ppaSet
    /\ numParticles = 0
    /\ graphics = [queueFamilyIndex |-> 0, uniformBuffer |-> 0]
    /\ compute = [queueFamilyIndex |-> 0, commandBuffer |-> <<>>, recorded |-> TRUE,
                  particleCount |-> 0, deltaT |-> 0, uniformBuffer |-> 0]
    /\ drawCmdBuffers = <<>>
    /\ currentCmdBufferIndex = 1
    /\ frame = 0
    /\ queues = [q \in Families |-> <<>>]
    /\ exec = [q \in Families |-> 0]
    /\ sem = [s \in Semaphores |-> Unsignaled]
    /\ imgPending = 0
    /\ owner = "Unowned"
    /\ ownOps = <<<<"none", 0, 0>>, <<"none", 0, 0>>>>
    /\ execs = <<"none", "none">>
    /\ satisfied = [k \in {"compute", "graphics"} |-> <<0, Unsignaled>>]
    /\ done = [k \in BatchKinds |-> 0]
    /\ destroyed = {}
    /\ failed = FALSE
    /\ hostOps = <<>>
    /\ paused = FALSE
    /\ frameTimer = 1
    /\ created = {}
    /\ earlyCalls = 0
    /\ InitializerNotRun

Init == InitWith({PARTICLES_PER_ATTRACTOR})

\* ------------------------------------------------------------ host thread
Submit(q, b) == queues' = [queues EXCEPT ![q] = Append(@, b)]

gpuRest == <<exec, sem, owner, ownOps, execs, satisfied, done>>

\* prepareForRendering: read the device's queue family indices.
PrepareForRendering ==
    /\ pc = "prepareForRendering"
    /\ graphics' = [graphics EXCEPT !.queueFamilyIndex = deviceQF.graphicIndex]
    /\ compute' = [compute EXCEPT !.queueFamilyIndex = deviceQF.computeIndex]
    /\ pc' = "prepareStorageBuffers"
    /\ UNCHANGED <<prepared, deviceQF, particlesPerAttractor, numParticles,
                   drawCmdBuffers, currentCmdBufferIndex, frame, destroyed, failed,
                   imgPending>>
    /\ UNCHANGED gpuVars
    /\ UNCHANGED <<hostOps, paused, frameTimer>>
    /\ UNCHANGED initVars
    /\ UNCHANGED <<created, earlyCalls>>

\* prepareStorageBuffers: size the particle array, record the staging copy and
\* hand it to the graphics queue (FlushCommandBuffer).
PrepareStorageBuffers ==
    /\ pc = "prepareStorageBuffers"
    /\ numParticles' = AttractorCount * particlesPerAttractor
    /\ compute' = [compute EXCEPT !.particleCount = AttractorCount * particlesPerAttractor]
    /\ Submit(graphics.queueFamilyIndex,
              Batch("upload", 0, {}, {},
                    UploadCommands(graphics.queueFamilyIndex, compute.queueFamilyIndex),
                    TRUE))
    /\ pc' = "flushCommandBuffer"
    /\ UNCHANGED <<prepared, deviceQF, particlesPerAttractor, graphics,
                   drawCmdBuffers, currentCmdBufferIndex, frame, destroyed, failed,
                   imgPending>>
    /\ UNCHANGED gpuRest
    /\ UNCHANGED <<hostOps, paused, frameTimer>>
    /\ UNCHANGED initVars
    /\ UNCHANGED <<created, earlyCalls>>

\* FlushCommandBuffer returns once the copy has executed.
FlushCommandBufferReturns == queues[graphics.queueFamilyIndex] = <<>>

FlushCommandBuffer ==
    /\ pc = "flushCommandBuffer"
    /\ FlushCommandBufferReturns
    /\ pc' = "prepareGraphicPass"
    /\ UNCHANGED <<prepared, deviceQF, particlesPerAttractor, numParticles, graphics,
                   compute, drawCmdBuffers, currentCmdBufferIndex, frame, destroyed,
                   failed, imgPending>>
    /\ UNCHANGED gpuVars
    /\ UNCHANGED <<hostOps, paused, frameTimer>>
    /\ UNCHANGED initVars
    /\ UNCHANGED <<created, earlyCalls>>

\* prepareGraphicPass: create graphics.semaphore and signal it for the first run.
PrimeGraphicsSemaphore ==
    /\ pc = "prepareGraphicPass"
    /\ Submit(graphics.queueFamilyIndex,
              Batch("prime", 0, {}, PrimingSignalSemaphores, <<>>, TRUE))
    /\ pc' = "queueWaitIdle"
    /\ UNCHANGED <<prepared, deviceQF, particlesPerAttractor, numParticles, graphics,
                   compute, drawCmdBuffers, currentCmdBufferIndex, frame, destroyed,
                   failed, imgPending>>
    /\ UNCHANGED gpuRest
    /\ UNCHANGED <<hostOps, paused, frameTimer>>
    /\ UNCHANGED initVars
    /\ created' = created \cup {GraphicsSemaphore}
    /\ UNCHANGED earlyCalls

\* A host that does not wait for the priming submission.
QueueWaitIdleReturnsAtOnce == TRUE

\* vkQueueWaitIdle(graphicQueue) returns once the graphics queue holds no batch.
QueueWaitIdleReturns == queues[graphics.queueFamilyIndex] = <<>>

QueueWaitIdle ==
    /\ pc = "queueWaitIdle"
    /\ QueueWaitIdleReturns
    /\ pc' = "buildCommandBuffers"
    /\ UNCHANGED <<prepared, deviceQF, particlesPerAttractor, numParticles, graphics,
                   compute, drawCmdBuffers, currentCmdBufferIndex, frame, destroyed,
                   failed, imgPending>>
    /\ UNCHANGED gpuVars
    /\ UNCHANGED <<hostOps, paused, frameTimer>>
    /\ UNCHANGED initVars
    /\ UNCHANGED <<created, earlyCalls>>

\* buildCommandBuffersForMainRendering: one iteration of the loop over drawCmdBuffers.
BuildDrawCommandBuffer ==
    /\ pc = "buildCommandBuffers"
    /\ drawCmdBuffers' = Append(drawCmdBuffers,
                                DrawCommands(graphics.queueFamilyIndex,
                                             compute.queueFamilyIndex, numParticles))
    /\ pc' = IF Len(drawCmdBuffers) + 1 = SwapchainImages
             THEN "prepareComputePass" ELSE "buildCommandBuffers"
    /\ UNCHANGED <<prepared, deviceQF, particlesPerAttractor, numParticles, graphics,
                   compute, currentCmdBufferIndex, frame, destroyed, failed, imgPending>>
    /\ UNCHANGED gpuVars
    /\ UNCHANGED <<hostOps, paused, frameTimer>>
    /\ UNCHANGED initVars
    /\ UNCHANGED <<created, earlyCalls>>

\* prepareComputePass: create compute.semaphore, record the compute command
\* buffer; prepareForRendering then sets prepared.
PrepareComputePass ==
    /\ pc = "prepareComputePass"
    /\ compute' = [compute EXCEPT
                     !.commandBuffer = ComputeCommands(graphics.queueFamilyIndex,
                                                       compute.queueFamilyIndex,
                                                       numParticles),
                     !.recorded = TRUE]
    /\ prepared' = TRUE
    /\ pc' = "renderLoop"
    /\ UNCHANGED <<deviceQF, particlesPerAttractor, numParticles, graphics,
                   drawCmdBuffers, currentCmdBufferIndex, frame, destroyed, failed,
                   imgPending>>
    /\ UNCHANGED gpuVars
    /\ UNCHANGED <<hostOps, paused, frameTimer>>
    /\ UNCHANGED initVars
    /\ created' = created \cup {ComputeSemaphore}
    /\ UNCHANGED earlyCalls

\* render() while prepared is false: it returns at once.
RenderNotPrepared ==
    /\ ~ prepared
    /\ pc \in {"prepareForRendering", "prepareStorageBuffers", "flushCommandBuffer",
               "prepareGraphicPass", "queueWaitIdle", "buildCommandBuffers",
               "prepareComputePass"}
    /\ earlyCalls < MaxEarlyCalls
    /\ earlyCalls' = earlyCalls + 1
    /\ UNCHANGED <<pc, prepared, deviceQF, particlesPerAttractor, numParticles, graphics,
                   compute, drawCmdBuffers, currentCmdBufferIndex, frame, destroyed,
                   failed, imgPending, hostOps, paused, frameTimer, created>>
    /\ UNCHANGED gpuVars
    /\ UNCHANGED initVars

\* A time step that does not look at paused.
DeltaTIgnoresPaused(p, ft) == ft * 5

\* updateComputeUniformBuffers: the time step, in hundredths of the unit of
\* frameTimer.
DeltaT(p, ft) == IF p THEN 0 ELSE ft * 5

\* render(): passes the prepared test and calls updateComputeUniformBuffers
\* (compute.uniformBuffer holds the number of the frame it was last written
\* for). The host makes at most `limit` such calls and is at most MaxAhead
\* frames ahead of the presentation.
RenderUpTo(limit) ==
    /\ pc = "renderLoop"
    /\ prepared
    /\ frame < limit
    /\ frame - done["present"] < MaxAhead
    /\ frame' = frame + 1
    /\ compute' = [compute EXCEPT !.deltaT = DeltaT(paused, frameTimer),
                                  !.uniformBuffer = frame + 1]
    /\ hostOps' = <<"updateComputeUniformBuffers">>
    /\ pc' = "updateGraphicsUniformBuffers"
    /\ UNCHANGED <<prepared, deviceQF, particlesPerAttractor, numParticles, graphics,
                   drawCmdBuffers, currentCmdBufferIndex, destroyed, failed,
                   imgPending, paused, frameTimer>>
    /\ UNCHANGED gpuVars
    /\ UNCHANGED initVars
    /\ UNCHANGED <<created, earlyCalls>>

\* A render() that goes to draw() without updateGraphicsUniformBuffers.
SkipGraphicsUniformBuffers ==
    /\ pc = "updateGraphicsUniformBuffers"
    /\ pc' = "draw"
    /\ UNCHANGED <<prepared, deviceQF, particlesPerAttractor, numParticles, compute,
                   graphics, drawCmdBuffers, currentCmdBufferIndex, frame, destroyed,
                   failed, imgPending, hostOps, paused, frameTimer>>
    /\ UNCHANGED gpuVars
    /\ UNCHANGED initVars
    /\ UNCHANGED <<created, earlyCalls>>

\* render(): updateGraphicsUniformBuffers, then draw().
UpdateGraphicsUniformBuffers ==
    /\ pc = "updateGraphicsUniformBuffers"
    /\ graphics' = [graphics EXCEPT !.uniformBuffer = frame]
    /\ hostOps' = Append(hostOps, "updateGraphicsUniformBuffers")
    /\ pc' = "draw"
    /\ UNCHANGED <<prepared, deviceQF, particlesPerAttractor, numParticles, compute,
                   drawCmdBuffers, currentCmdBufferIndex, frame, destroyed, failed,
                   imgPending, paused, frameTimer>>
    /\ UNCHANGED gpuVars
    /\ UNCHANGED initVars
    /\ UNCHANGED <<created, earlyCalls>>

Render == RenderUpTo(MaxFrames)

RenderLong == RenderUpTo(LongFrames)

\* draw(): submit the compute command buffer to compute.queue.
SubmitCompute ==
    /\ pc = "draw"
    /\ Submit(compute.queueFamilyIndex,
              Batch("compute", frame, ComputeWaitSemaphores, ComputeSignalSemaphores,
                    compute.commandBuffer, compute.recorded))
    /\ pc' = "prepareFrame"
    /\ UNCHANGED <<prepared, deviceQF, particlesPerAttractor, numParticles, graphics,
                   compute, drawCmdBuffers, currentCmdBufferIndex, frame, destroyed,
                   failed, imgPending>>
    /\ UNCHANGED gpuRest
    /\ hostOps' = Append(hostOps, "vkQueueSubmit(compute.queue)")
    /\ UNCHANGED <<paused, frameTimer>>
    /\ UNCHANGED initVars
    /\ UNCHANGED <<created, earlyCalls>>

\* VulkanExampleBase::prepareFrame: acquire the next image; the presentation
\* engine will signal semaphores.presentComplete for it.
PrepareFrame ==
    /\ pc = "prepareFrame"
    /\ imgPending' = imgPending + 1
    /\ currentCmdBufferIndex' \in 1 .. SwapchainImages
    /\ pc' = "submitGraphics"
    /\ UNCHANGED <<prepared, deviceQF, particlesPerAttractor, numParticles, graphics,
                   compute, drawCmdBuffers, frame, destroyed, failed>>
    /\ UNCHANGED gpuVars
    /\ hostOps' = Append(hostOps, "prepareFrame")
    /\ UNCHANGED <<paused, frameTimer>>
    /\ UNCHANGED initVars
    /\ UNCHANGED <<created, earlyCalls>>

\* draw(): submit the draw command buffer of the acquired image to graphicQueue.
SubmitGraphics ==
    /\ pc = "submitGraphics"
    /\ Submit(graphics.queueFamilyIndex,
              Batch("graphics", frame, GraphicsWaitSemaphores, GraphicsSignalSemaphores,
                    drawCmdBuffers[currentCmdBufferIndex], TRUE))
    /\ pc' = "submitFrame"
    /\ UNCHANGED <<prepared, deviceQF, particlesPerAttractor, numParticles, graphics,
                   compute, drawCmdBuffers, currentCmdBufferIndex, frame, destroyed,
                   failed, imgPending>>
    /\ UNCHANGED gpuRest
    /\ hostOps' = Append(hostOps, "vkQueueSubmit(graphicQueue)")
    /\ UNCHANGED <<paused, frameTimer>>
    /\ UNCHANGED initVars
    /\ UNCHANGED <<created, earlyCalls>>

\* VulkanExampleBase::submitFrame: queue the presentation, which waits for
\* semaphores.renderComplete.
SubmitFrame ==
    /\ pc = "submitFrame"
    /\ Submit(graphics.queueFamilyIndex,
              Batch("present", frame, {RenderComplete}, {}, <<>>, TRUE))
    /\ pc' = "renderLoop"
    /\ UNCHANGED <<prepared, deviceQF, particlesPerAttractor, numParticles, graphics,
                   compute, drawCmdBuffers, currentCmdBufferIndex, frame, destroyed,
                   failed, imgPending>>
    /\ UNCHANGED gpuRest
    /\ hostOps' = Append(hostOps, "submitFrame")
    /\ UNCHANGED <<paused, frameTimer>>
    /\ UNCHANGED initVars
    /\ UNCHANGED <<created, earlyCalls>>

\* The render loop ends (window closed).
ExitRenderLoop ==
    /\ pc = "renderLoop"
    /\ prepared
    /\ pc' = "deviceWaitIdle"
    /\ UNCHANGED <<prepared, deviceQF, particlesPerAttractor, numParticles, graphics,
                   compute, drawCmdBuffers, currentCmdBufferIndex, frame, destroyed,
                   failed, imgPending>>
    /\ UNCHANGED gpuVars
    /\ UNCHANGED <<hostOps, paused, frameTimer>>
    /\ UNCHANGED initVars
    /\ UNCHANGED <<created, earlyCalls>>

\* A teardown that does not wait for the device.
DeviceWaitIdleReturnsAtOnce == TRUE

\* The device-idle wait returns once no queue holds a batch.
DeviceWaitIdleReturns == \A q \in Families : queues[q] = <<>>

DeviceWaitIdle ==
    /\ pc = "deviceWaitIdle"
    /\ DeviceWaitIdleReturns
    /\ pc' = "destructor"
    /\ UNCHANGED <<prepared, deviceQF, particlesPerAttractor, numParticles, graphics,
                   compute, drawCmdBuffers, currentCmdBufferIndex, frame, destroyed,
                   failed, imgPending>>
    /\ UNCHANGED gpuVars
    /\ UNCHANGED <<hostOps, paused, frameTimer>>
    /\ UNCHANGED initVars
    /\ UNCHANGED <<created, earlyCalls>>

\* ~VulkanExample: destroy the uniform buffers, pipelines, semaphores, the
\* compute command pool, the storage buffer and the textures.
Destructor ==
    /\ pc = "destructor"
    /\ destroyed' = AllObjects
    /\ pc' = "done"
    /\ UNCHANGED <<prepared, deviceQF, particlesPerAttractor, numParticles, graphics,
                   compute, drawCmdBuffers, currentCmdBufferIndex, frame, failed,
                   imgPending>>
    /\ UNCHANGED gpuVars
    /\ UNCHANGED <<hostOps, paused, frameTimer>>
    /\ UNCHANGED initVars
    /\ UNCHANGED <<created, earlyCalls>>

\* ---------------------------------------------------------- device queues
\* The semaphores after batch b has consumed its waits and signaled.
AfterWait(b, sm) == [s \in Semaphores |-> IF s \in b.wait THEN Unsignaled ELSE sm[s]]
AfterSignal(b, sm) ==
    [s \in Semaphores |-> IF s \in b.signal THEN <<b.kind, b.frame>> ELSE sm[s]]

\* The signal a started batch's wait on semaphore s consumed.
Consumed(b, s) == IF s \in b.wait THEN sem[s] ELSE Unsignaled

\* Ownership of storageBuffer after command c has executed on queue q.
OwnerAfter(q, c) ==
    IF IsOwnershipTransfer(c)
    THEN (IF OwnershipOp(q, c) = "release" THEN "Transferring"
          ELSE IF OwnershipOp(q, c) = "acquire" THEN Role(q)
          ELSE owner)
    ELSE IF c.op = "copyBuffer" /\ owner = "Unowned" THEN Role(q)
    ELSE owner

OwnOpsAfter(q, c) ==
    IF IsOwnershipTransfer(c)
    THEN <<ownOps[2],
           <<OwnershipOp(q, c), c.srcQueueFamilyIndex, c.dstQueueFamilyIndex>>>>
    ELSE ownOps

\* A queue starts its oldest batch once every semaphore it waits on is signaled;
\* a batch without commands completes at once.
QueueStart(q) ==
    /\ queues[q] # <<>>
    /\ exec[q] = 0
    /\ LET b == Head(queues[q]) IN
        /\ \A s \in b.wait : sem[s] # Unsignaled
        /\ execs' = IF b.kind \in {"compute", "graphics"}
                    THEN <<execs[2], b.kind>> ELSE execs
        /\ satisfied' =
             IF b.kind = "compute"
             THEN [satisfied EXCEPT !["compute"] = <<b.frame, Consumed(b, GraphicsSemaphore)>>]
             ELSE IF b.kind = "graphics"
             THEN [satisfied EXCEPT !["graphics"] = <<b.frame, Consumed(b, ComputeSemaphore)>>]
             ELSE satisfied
        /\ IF b.cmds = <<>>
           THEN /\ sem' = AfterSignal(b, AfterWait(b, sem))
                /\ queues' = [queues EXCEPT ![q] = Tail(@)]
                /\ done' = [done EXCEPT ![b.kind] = @ + 1]
                /\ exec' = exec
           ELSE /\ sem' = AfterWait(b, sem)
                /\ exec' = [exec EXCEPT ![q] = 1]
                /\ UNCHANGED <<queues, done>>
    /\ UNCHANGED <<owner, ownOps, imgPending>>
    /\ UNCHANGED <<pc, prepared, deviceQF, particlesPerAttractor, numParticles, graphics,
                   compute, drawCmdBuffers, currentCmdBufferIndex, frame, destroyed,
                   failed>>
    /\ UNCHANGED <<hostOps, paused, frameTimer>>
    /\ UNCHANGED initVars
    /\ UNCHANGED <<created, earlyCalls>>

\* The command in progress on queue q finishes; after the last command the batch
\* completes and signals its semaphores.
QueueStep(q) ==
    /\ exec[q] > 0
    /\ LET b == Head(queues[q])
           c == b.cmds[exec[q]] IN
        /\ owner' = OwnerAfter(q, c)
        /\ ownOps' = OwnOpsAfter(q, c)
        /\ IF exec[q] < Len(b.cmds)
           THEN /\ exec' = [exec EXCEPT ![q] = @ + 1]
                /\ UNCHANGED <<queues, sem, done>>
           ELSE /\ exec' = [exec EXCEPT ![q] = 0]
                /\ queues' = [queues EXCEPT ![q] = Tail(@)]
                /\ sem' = AfterSignal(b, sem)
                /\ done' = [done EXCEPT ![b.kind] = @ + 1]
    /\ UNCHANGED <<execs, satisfied, imgPending>>
    /\ UNCHANGED <<pc, prepared, deviceQF, particlesPerAttractor, numParticles, graphics,
                   compute, drawCmdBuffers, currentCmdBufferIndex, frame, destroyed,
                   failed>>
    /\ UNCHANGED <<hostOps, paused, frameTimer>>
    /\ UNCHANGED initVars
    /\ UNCHANGED <<created, earlyCalls>>

\* The presentation engine signals semaphores.presentComplete for an acquired image.
ImageAvailable ==
    /\ imgPending > 0
    /\ sem[PresentComplete] = Unsignaled
    /\ sem' = [sem EXCEPT ![PresentComplete] = <<"acquire", 0>>]
    /\ imgPending' = imgPending - 1
    /\ UNCHANGED <<queues, exec, owner, ownOps, execs, satisfied, done>>
    /\ UNCHANGED <<pc, prepared, deviceQF, particlesPerAttractor, numParticles, graphics,
                   compute, drawCmdBuffers, currentCmdBufferIndex, frame, destroyed,
                   failed>>
    /\ UNCHANGED <<hostOps, paused, frameTimer>>
    /\ UNCHANGED initVars
    /\ UNCHANGED <<created, earlyCalls>>

\* ------------------------------------------------------------------- Next
HostSteps ==
    \/ PrepareForRendering
    \/ PrepareStorageBuffers
    \/ FlushCommandBuffer
    \/ PrimeGraphicsSemaphore
    \/ QueueWaitIdle
    \/ BuildDrawCommandBuffer
    \/ PrepareComputePass
    \/ UpdateGraphicsUniformBuffers
    \/ SubmitCompute
    \/ PrepareFrame
    \/ SubmitGraphics
    \/ SubmitFrame
    \/ ExitRenderLoop
    \/ DeviceWaitIdle
    \/ Destructor

DeviceNext ==
    \/ \E q \in Families : QueueStart(q)
    \/ \E q \in Families : QueueStep(q)
    \/ ImageAvailable

Next == HostSteps \/ Render \/ DeviceNext

Spec == Init /\ [][Next]_vars

\* The same program run for LongFrames frames.
NextLong == HostSteps \/ RenderLong \/ DeviceNext

SpecLong == Init /\ [][NextLong]_vars

\* -------------------------------------------------------- failing API calls
\* What the host does when a Vulkan call returns an error. The calls wrapped in
\* VK_CHECK_RESULT end the process; the unwrapped vkEndCommandBuffer of
\* buildComputeCommandBuffer lets it go on with a command buffer that was not
\* recorded.
Abort ==
    /\ failed' = TRUE
    /\ pc' = "aborted"
    /\ UNCHANGED <<prepared, deviceQF, particlesPerAttractor, numParticles, graphics,
                   compute, drawCmdBuffers, currentCmdBufferIndex, frame, destroyed,
                   imgPending>>
    /\ UNCHANGED gpuVars
    /\ UNCHANGED <<hostOps, paused, frameTimer>>
    /\ UNCHANGED initVars
    /\ UNCHANGED <<created, earlyCalls>>

\* vkQueueSubmit fails: the priming, the compute or the graphics submission.
FailQueueSubmit ==
    /\ pc \in {"prepareGraphicPass", "draw", "submitGraphics"}
    /\ Abort

\* vkQueueWaitIdle(graphicQueue) fails.
FailQueueWaitIdle ==
    /\ pc = "queueWaitIdle"
    /\ Abort

\* vkBeginCommandBuffer or vkEndCommandBuffer of a draw command buffer fails.
FailBuildDrawCommandBuffer ==
    /\ pc = "buildCommandBuffers"
    /\ Abort

\* vkBeginCommandBuffer of the compute command buffer fails.
FailBeginComputeCommandBuffer ==
    /\ pc = "prepareComputePass"
    /\ Abort

\* vkEndCommandBuffer of the compute command buffer fails: its result is dropped.
FailEndComputeCommandBuffer ==
    /\ pc = "prepareComputePass"
    /\ compute' = [compute EXCEPT
                     !.commandBuffer = ComputeCommands(graphics.queueFamilyIndex,
                                                       compute.queueFamilyIndex,
                                                       numParticles),
                     !.recorded = FALSE]
    /\ failed' = TRUE
    /\ prepared' = TRUE
    /\ pc' = "renderLoop"
    /\ UNCHANGED <<deviceQF, particlesPerAttractor, numParticles, graphics,
                   drawCmdBuffers, currentCmdBufferIndex, frame, destroyed, imgPending>>
    /\ UNCHANGED gpuVars
    /\ UNCHANGED <<hostOps, paused, frameTimer>>
    /\ UNCHANGED initVars
    /\ created' = created \cup {ComputeSemaphore}
    /\ UNCHANGED earlyCalls

\* A command of a command buffer that was not recorded may have no effect.
QueueSkip(q) ==
    /\ exec[q] > 0
    /\ ~ Head(queues[q]).valid
    /\ LET b == Head(queues[q]) IN
        IF exec[q] < Len(b.cmds)
        THEN /\ exec' = [exec EXCEPT ![q] = @ + 1]
             /\ UNCHANGED <<queues, sem, done>>
        ELSE /\ exec' = [exec EXCEPT ![q] = 0]
             /\ queues' = [queues EXCEPT ![q] = Tail(@)]
             /\ sem' = AfterSignal(b, sem)
             /\ done' = [done EXCEPT ![b.kind] = @ + 1]
    /\ UNCHANGED <<owner, ownOps, execs, satisfied, imgPending>>
    /\ UNCHANGED <<pc, prepared, deviceQF, particlesPerAttractor, numParticles, graphics,
                   compute, drawCmdBuffers, currentCmdBufferIndex, frame, destroyed,
                   failed>>
    /\ UNCHANGED <<hostOps, paused, frameTimer>>
    /\ UNCHANGED initVars
    /\ UNCHANGED <<created, earlyCalls>>

FailNext ==
    \/ FailQueueSubmit
    \/ FailQueueWaitIdle
    \/ FailBuildDrawCommandBuffer
    \/ FailBeginComputeCommandBuffer
    \/ FailEndComputeCommandBuffer
    \/ \E q \in Families : QueueSkip(q)

\* The program with Vulkan calls that may fail.
SpecFail == Init /\ [][Next \/ FailNext]_vars

\* The program with Vulkan calls that may fail and a framework that may call
\* render() while prepareForRendering has not finished.
SpecRender == Init /\ [][Next \/ FailNext \/ RenderNotPrepared]_vars

\* Between two render() calls the user pauses or resumes the simulation.
TogglePause ==
    /\ pc = "renderLoop"
    /\ prepared
    /\ paused' = ~ paused
    /\ UNCHANGED <<pc, prepared, deviceQF, particlesPerAttractor, numParticles,
                   graphics, compute, drawCmdBuffers, currentCmdBufferIndex, frame,
                   destroyed, failed, imgPending, hostOps, frameTimer>>
    /\ UNCHANGED gpuVars
    /\ UNCHANGED initVars
    /\ UNCHANGED <<created, earlyCalls>>

\* Between two render() calls the render loop measures the last frame's time.
MeasureFrameTime ==
    /\ pc = "renderLoop"
    /\ prepared
    /\ frameTimer' \in (1 .. MaxFrameTimer) \ {frameTimer}
    /\ UNCHANGED <<pc, prepared, deviceQF, particlesPerAttractor, numParticles,
                   graphics, compute, drawCmdBuffers, currentCmdBufferIndex, frame,
                   destroyed, failed, imgPending, hostOps, paused>>
    /\ UNCHANGED gpuVars
    /\ UNCHANGED initVars
    /\ UNCHANGED <<created, earlyCalls>>

\* The program with a user who pauses and resumes and with varying frame times.
SpecPause == Init /\ [][Next \/ TogglePause \/ MeasureFrameTime]_vars

\* The device executes what it is given and the presentation engine delivers
\* the images the host acquired.
FairSpec ==
    /\ Spec
    /\ \A q \in Families : WF_vars(QueueStart(q) \/ QueueStep(q))
    /\ WF_vars(ImageAvailable)

\* Preparation alone, for builds with any number of particles per attractor.
InitDispatch == InitWith(0 .. MaxPerAttractor)

NextDispatch ==
    \/ PrepareForRendering
    \/ PrepareStorageBuffers
    \/ FlushCommandBuffer
    \/ PrimeGraphicsSemaphore
    \/ QueueWaitIdle
    \/ BuildDrawCommandBuffer
    \/ PrepareComputePass
    \/ \E q \in Families : QueueStart(q)
    \/ \E q \in Families : QueueStep(q)

SpecDispatch == InitDispatch /\ [][NextDispatch]_vars

\* ------------------------------------------------------ the compute pass
\* The two compute shaders, as section 4.2 of the design describes them: on
\* numbers that are an integer or not-a-number.
F(v) == [nan |-> FALSE, v |-> v]
NaN == [nan |-> TRUE, v |-> 0]

Add(a, b) == IF a.nan \/ b.nan THEN NaN ELSE F(a.v + b.v)
Sub(a, b) == IF a.nan \/ b.nan THEN NaN ELSE F(a.v - b.v)
Mul(a, b) == IF a.nan \/ b.nan THEN NaN ELSE F(a.v * b.v)

\* A division by zero and pow(0, 0) have no defined result: u is what the
\* device produces for them.
Quot(a, b, u) ==
    IF a.nan \/ b.nan THEN NaN
    ELSE IF b.v = 0 THEN u
    ELSE F(a.v \div b.v)

RECURSIVE PowInt(_, _)
PowInt(b, p) == IF p = 0 THEN 1 ELSE b * PowInt(b, p - 1)

Pow(b, p, u) ==
    IF b.nan \/ p.nan THEN NaN
    ELSE IF b.v = 0 /\ p.v = 0 THEN u
    ELSE F(PowInt(b.v, p.v))

UndefinedResults == {NaN, F(0)}

Dot(a, b) == Add(Add(Mul(a[1], b[1]), Mul(a[2], b[2])), Mul(a[3], b[3]))

\* The pull of particle pj on particle pi:
\* gravity * mass_j * (pos_j - pos_i) / (|pos_j - pos_i|^2 + soften^2)^power.
Contribution(pi, pj, U, u) ==
    LET d == [k \in 1 .. 3 |-> Sub(pj.pos[k], pi.pos[k])]
        denominator == Pow(Add(Dot(d, d), Mul(U.soften, U.soften)), U.power, u)
    IN  [k \in 1 .. 3 |->
           Quot(Mul(Mul(U.gravity, pj.pos[4]), d[k]), denominator, u)]

\* The sum of the pulls of particles 1 .. j, except i, on particle i.
RECURSIVE Acceleration(_, _, _, _, _)
Acceleration(P, i, j, U, u) ==
    IF j = 0 THEN [k \in 1 .. 3 |-> F(0)]
    ELSE IF j = i THEN Acceleration(P, i, j - 1, U, u)
    ELSE LET sum == Acceleration(P, i, j - 1, U, u)
             pull == Contribution(P[i], P[j], U, u)
         IN  [k \in 1 .. 3 |-> Add(sum[k], pull[k])]

\* Calculate: every particle's velocity takes up its acceleration over deltaT;
\* positions are left alone.
Calculate(P, U, u) ==
    [i \in 1 .. Len(P) |->
       LET acceleration == Acceleration(P, i, Len(P), U, u) IN
       [P[i] EXCEPT !.vel =
          <<Add(P[i].vel[1], Mul(U.deltaT, acceleration[1])),
            Add(P[i].vel[2], Mul(U.deltaT, acceleration[2])),
            Add(P[i].vel[3], Mul(U.deltaT, acceleration[3])),
            P[i].vel[4]>>]]

\* An integration that moves every particle by its velocity, whatever deltaT.
IntegrateUnitStep(P, U) ==
    [i \in 1 .. Len(P) |->
       [P[i] EXCEPT !.pos =
          <<Add(P[i].pos[1], P[i].vel[1]),
            Add(P[i].pos[2], P[i].vel[2]),
            Add(P[i].pos[3], P[i].vel[3]),
            P[i].pos[4]>>]]

\* Integrate: position += velocity * deltaT.
Integrate(P, U) ==
    [i \in 1 .. Len(P) |->
       [P[i] EXCEPT !.pos =
          <<Add(P[i].pos[1], Mul(P[i].vel[1], U.deltaT)),
            Add(P[i].pos[2], Mul(P[i].vel[2], U.deltaT)),
            Add(P[i].pos[3], Mul(P[i].vel[3], U.deltaT)),
            P[i].pos[4]>>]]

\* The host and the device of a program that has not begun its preparation.
ProtocolNotStarted ==
    /\ prepared = FALSE
    /\ deviceQF = [graphicIndex |-> 0, computeIndex |-> 0]
    /\ numParticles = 0
    /\ graphics = [queueFamilyIndex |-> 0, uniformBuffer |-> 0]
    /\ compute = [queueFamilyIndex |-> 0, commandBuffer |-> <<>>, recorded |-> TRUE,
                  particleCount |-> 0, deltaT |-> 0, uniformBuffer |-> 0]
    /\ drawCmdBuffers = <<>>
    /\ currentCmdBufferIndex = 1
    /\ frame = 0
    /\ queues = [q \in Families |-> <<>>]
    /\ exec = [q \in Families |-> 0]
    /\ sem = [s \in Semaphores |-> Unsignaled]
    /\ imgPending = 0
    /\ owner = "Unowned"
    /\ ownOps = <<<<"none", 0, 0>>, <<"none", 0, 0>>>>
    /\ execs = <<"none", "none">>
    /\ satisfied = [k \in {"compute", "graphics"} |-> <<0, Unsignaled>>]
    /\ done = [k \in BatchKinds |-> 0]
    /\ destroyed = {}
    /\ failed = FALSE
    /\ hostOps = <<>>
    /\ paused = FALSE
    /\ frameTimer = 1
    /\ created = {}
    /\ earlyCalls = 0

\* The particles the compute pass is run on: on the x axis, at rest or moving
\* along it, with mass 1 or 2.
PassParticles ==
    {[pos |-> <<F(x), F(0), F(0), F(m)>>, vel |-> <<F(v), F(0), F(0), F(0)>>] :
        x \in 0 .. MaxCoordinate, m \in {1, 2}, v \in {0, 1}}

PassArrays == UNION {[1 .. n -> PassParticles] : n \in 0 .. MaxPassParticles}

PassUniforms ==
    [deltaT : {F(0), F(1)}, particleCount : 0 .. MaxPassParticles,
     gravity : {F(0), F(1)}, power : {F(0), F(1)}, soften : {F(0), F(1)}]

InitPass ==
    /\ pc = "pipelineCalculate"
    /\ ProtocolNotStarted
    /\ particlesPerAttractor = 0
    /\ benchmark = FALSE
    /\ argOrder = "leftToRight"
    /\ seedTime = 0
    /\ rndEngine = 0
    /\ written = <<>>
    /\ loop = [i |-> 0, j |-> 0]
    /\ run = 1
    /\ firstRun = [time |-> 0, particleBuffer |-> <<>>]
    /\ particleBuffer \in PassArrays
    /\ ubo \in {U \in PassUniforms : U.particleCount = Len(particleBuffer)}
    /\ before = particleBuffer

passRest == <<prepared, deviceQF, particlesPerAttractor, numParticles, graphics,
              compute, drawCmdBuffers, currentCmdBufferIndex, frame, destroyed,
              failed, imgPending, hostOps, paused, frameTimer, created, earlyCalls,
              benchmark, argOrder, seedTime, rndEngine, written, loop, run, firstRun,
              ubo, before>>

\* The first dispatch of the compute command buffer.
DispatchCalculate ==
    /\ pc = "pipelineCalculate"
    /\ \E u \in UndefinedResults : particleBuffer' = Calculate(particleBuffer, ubo, u)
    /\ pc' = "pipelineBarrier"
    /\ UNCHANGED passRest
    /\ UNCHANGED gpuVars

\* The barrier between the dispatches: the velocities written are visible.
IntraQueueBarrier ==
    /\ pc = "pipelineBarrier"
    /\ pc' = "pipelineIntegrate"
    /\ UNCHANGED particleBuffer
    /\ UNCHANGED passRest
    /\ UNCHANGED gpuVars

\* The second dispatch of the compute command buffer.
DispatchIntegrate ==
    /\ pc = "pipelineIntegrate"
    /\ particleBuffer' = Integrate(particleBuffer, ubo)
    /\ pc' = "passDone"
    /\ UNCHANGED passRest
    /\ UNCHANGED gpuVars

NextPass == DispatchCalculate \/ IntraQueueBarrier \/ DispatchIntegrate

\* One cycle of the compute pass on a particle array.
SpecPass == InitPass /\ [][NextPass]_vars

\* ------------------------------------------------ the particle initializer
\* The loop of prepareStorageBuffers that fills particleBuffer. Positions are in
\* quarters, velocities in fortieths, masses in halves, the gradient offset in
\* thousandths; rndDist is followed on the integers -MaxSample .. MaxSample.
attractors ==
    << <<5, 0, 0>>, <<-5, 0, 0>>, <<0, 0, 5>>, <<0, 0, -5>>, <<0, 4, 0>>, <<0, -8, 0>> >>

\* std::default_random_engine: x' = 16807 * x mod (2^31 - 1), computed without
\* leaving 32 bits.
EngineModulus == 2147483647
EngineMultiplier == 16807

EngineNext(x) ==
    LET q == EngineModulus \div EngineMultiplier
        r == EngineModulus % EngineMultiplier
        t == EngineMultiplier * (x % q) - r * (x \div q)
    IN  IF t > 0 THEN t ELSE t + EngineModulus

SeedEngine(seed) == IF seed % EngineModulus = 0 THEN 1 ELSE seed % EngineModulus

\* A seed taken from the clock in benchmark mode too.
SeedFromTime(b, t) == t

\* benchmark.active ? 0 : (unsigned)time(nullptr)
Seed(b, t) == IF b THEN 0 ELSE t

\* What rndDist(rndEngine) returns when the engine has moved to x.
Sample(x) == (x % (2 * MaxSample + 1)) - MaxSample

\* The engine after n calls of rndDist.
RECURSIVE EngineAfter(_, _)
EngineAfter(x, n) == IF n = 0 THEN x ELSE EngineNext(EngineAfter(x, n - 1))

\* glm::vec3(rndDist(rndEngine), rndDist(rndEngine), rndDist(rndEngine)): the
\* three samples drawn after n earlier ones, in the order the build evaluates
\* the arguments.
Samples3(x, n, order) ==
    LET a == Sample(EngineAfter(x, n + 1))
        b == Sample(EngineAfter(x, n + 2))
        c == Sample(EngineAfter(x, n + 3))
    IN  IF order = "leftToRight" THEN <<a, b, c>> ELSE <<c, b, a>>

\* An element index that leaves out the stride of a group.
ParticleIndexNoStride(i, j, ppa) == i + j

\* particleBuffer[i*PARTICLES_PER_ATTRACTOR + j]
ParticleIndex(i, j, ppa) == i * ppa + j

\* The quotient taken in integers, before the conversion to float.
GradientIntegerDivision(i) == F((i \div Len(attractors)) * 1000)

\* (float)i*1.0f / ATTRACTORS_SIZE, in thousandths.
Gradient(i) == F((i * 1000) \div Len(attractors))

\* (rndDist(rndEngine) * 0.5f + 0.5f) * 75.0f, in halves.
Mass(sample) == (sample + 1) * 75

\* The first particle of group i: the heavy center of gravity.
HeavyCenter(i) ==
    [pos |-> <<F(attractors[i + 1][1] * 6), F(attractors[i + 1][2] * 6),
               F(attractors[i + 1][3] * 6), F(90000 * 2)>>,
     vel |-> <<F(0), F(0), F(0), F(0)>>]

\* glm::length(glm::normalize(v)), squared: 1, and not a number for v = 0.
LenSquared(v) == IF v = <<0, 0, 0>> THEN NaN ELSE F(1)

\* Any other particle of group i, from the seven samples drawn with the engine
\* at x.
SampledParticle(i, x, order) ==
    LET a == attractors[i + 1]
        s == Samples3(x, 0, order)
        flat == Sub(F(2), LenSquared(s))
        position == <<F(4 * a[1] + 3 * s[1]),
                      Mul(F(4 * a[2] + 3 * s[2]), flat),
                      F(4 * a[3] + 3 * s[3])>>
        d == <<Sub(position[1], F(4 * a[1])), Sub(position[2], F(4 * a[2])),
               Sub(position[3], F(4 * a[3]))>>
        sign == IF i % 2 = 0 THEN 1 ELSE -1
        angular == <<F(sign), F(3 * sign), F(sign)>>
        cross == <<Sub(Mul(d[2], angular[3]), Mul(d[3], angular[2])),
                   Sub(Mul(d[3], angular[1]), Mul(d[1], angular[3])),
                   Sub(Mul(d[1], angular[2]), Mul(d[2], angular[1]))>>
        jitter == Samples3(x, 3, order)
        velocity == <<Add(Mul(F(5), cross[1]), F(40 * jitter[1])),
                      Add(Mul(F(5), cross[2]), F(40 * jitter[2])),
                      Add(Mul(F(5), cross[3]), F(jitter[3]))>>
        mass == Mass(Sample(EngineAfter(x, 7)))
    IN  [pos |-> <<position[1], position[2], position[3], F(mass)>>,
         vel |-> <<velocity[1], velocity[2], velocity[3], F(0)>>]

ZeroParticle ==
    [pos |-> <<F(0), F(0), F(0), F(0)>>, vel |-> <<F(0), F(0), F(0), F(0)>>]

InitInitializer ==
    /\ pc = "sizeParticleBuffer"
    /\ ProtocolNotStarted
    /\ particlesPerAttractor \in 0 .. MaxInitPerAttractor
    /\ benchmark \in BOOLEAN
    /\ argOrder \in {"leftToRight", "rightToLeft"}
    /\ seedTime \in 1 .. MaxTime
    /\ rndEngine = 0
    /\ particleBuffer = <<>>
    /\ written = <<>>
    /\ loop = [i |-> 0, j |-> 0]
    /\ run = 1
    /\ firstRun = [time |-> 0, particleBuffer |-> <<>>]
    /\ ubo = DefaultUniformData
    /\ before = <<>>

initRest == <<prepared, deviceQF, particlesPerAttractor, graphics, drawCmdBuffers,
              currentCmdBufferIndex, frame, destroyed, failed, imgPending, hostOps,
              paused, frameTimer, created, earlyCalls, benchmark, argOrder, ubo, before>>

\* prepareStorageBuffers: numParticles, the vector of that size, the engine.
SizeParticleBuffer ==
    /\ pc = "sizeParticleBuffer"
    /\ numParticles' = Len(attractors) * particlesPerAttractor
    /\ particleBuffer' =
         [k \in 1 .. (Len(attractors) * particlesPerAttractor) |-> ZeroParticle]
    /\ written' = [k \in 1 .. (Len(attractors) * particlesPerAttractor) |-> 0]
    /\ rndEngine' = SeedEngine(Seed(benchmark, seedTime))
    /\ loop' = [i |-> 0, j |-> 0]
    /\ pc' = "initParticles"
    /\ UNCHANGED <<compute, seedTime, run, firstRun>>
    /\ UNCHANGED initRest
    /\ UNCHANGED gpuVars

\* One pass of the inner loop: the particle j of group i.
InitParticle ==
    /\ pc = "initParticles"
    /\ loop.i < Len(attractors)
    /\ loop.j < particlesPerAttractor
    /\ LET index == ParticleIndex(loop.i, loop.j, particlesPerAttractor) + 1
           particle == IF loop.j = 0
                       THEN HeavyCenter(loop.i)
                       ELSE SampledParticle(loop.i, rndEngine, argOrder)
       IN  /\ particleBuffer' =
                [particleBuffer EXCEPT ![index] =
                    [particle EXCEPT !.vel[4] = Gradient(loop.i)]]
           /\ written' = [written EXCEPT ![index] = @ + 1]
    /\ rndEngine' = IF loop.j = 0 THEN rndEngine ELSE EngineAfter(rndEngine, 7)
    /\ loop' = IF loop.j + 1 < particlesPerAttractor
               THEN [loop EXCEPT !.j = @ + 1]
               ELSE [i |-> loop.i + 1, j |-> 0]
    /\ UNCHANGED <<pc, numParticles, compute, seedTime, run, firstRun>>
    /\ UNCHANGED initRest
    /\ UNCHANGED gpuVars

\* The loops are over: compute.uniformData.particleCount = numParticles.
FinishInitializer ==
    /\ pc = "initParticles"
    /\ loop.i = Len(attractors) \/ particlesPerAttractor = 0
    /\ compute' = [compute EXCEPT !.particleCount = numParticles]
    /\ pc' = "particlesInitialized"
    /\ UNCHANGED <<numParticles, seedTime, rndEngine, particleBuffer, written, loop,
                   run, firstRun>>
    /\ UNCHANGED initRest
    /\ UNCHANGED gpuVars

\* The program is started a second time, at the same or a later time.
RunAgain ==
    /\ pc = "particlesInitialized"
    /\ run = 1
    /\ run' = 2
    /\ firstRun' = [time |-> seedTime, particleBuffer |-> particleBuffer]
    /\ seedTime' \in seedTime .. MaxTime
    /\ numParticles' = 0
    /\ compute' = [compute EXCEPT !.particleCount = 0]
    /\ particleBuffer' = <<>>
    /\ written' = <<>>
    /\ rndEngine' = 0
    /\ loop' = [i |-> 0, j |-> 0]
    /\ pc' = "sizeParticleBuffer"
    /\ UNCHANGED initRest
    /\ UNCHANGED gpuVars

NextInitializer == SizeParticleBuffer \/ InitParticle \/ FinishInitializer \/ RunAgain

\* The particle initializer alone, run twice.
SpecInitializer == InitInitializer /\ [][NextInitializer]_vars

\* ================================================================= claims
Differ == graphics.queueFamilyIndex # compute.queueFamilyIndex
Configured == pc # "prepareForRendering"

\* The places of the batches submitted and not completed.
Pending == UNION {{<<q, i>> : i \in 1 .. Len(queues[q])} : q \in Families}
BatchAt(p) == queues[p[1]][p[2]]

Running(q) == exec[q] > 0
Current(q) == Head(queues[q]).cmds[exec[q]]

\* The compute pass of the batch on queue q is between the start of Calculate
\* and the end of Integrate.
Writing(q) ==
    /\ Running(q)
    /\ Head(queues[q]).kind = "compute"
    /\ ~ NamesQueueFamilies(Current(q))

\* The draw of the batch on queue q is reading the vertex data.
Reading(q) ==
    /\ Running(q)
    /\ Head(queues[q]).kind = "graphics"
    /\ Current(q).op = "draw"

\* C1: a compute pass writing storageBuffer and a draw reading it are never in
\* progress together; frame n's draw reads only after frame n's compute batch
\* has completed, and frame n+1's compute pass writes only after frame n's
\* graphics batch has completed.
C1_NoReadDuringWrite ==
    /\ \A q1, q2 \in Families : ~ (Writing(q1) /\ Reading(q2))
    /\ \A q \in Families :
         Reading(q) => done["compute"] >= Head(queues[q]).frame
    /\ \A q \in Families :
         Writing(q) => done["graphics"] >= Head(queues[q]).frame - 1

\* The host has run ahead: frame n's draw is reading on the graphics queue while
\* the compute batch of frame n+1 is already queued on another queue.
C1_Witness ==
    /\ Differ
    /\ Reading(graphics.queueFamilyIndex)
    /\ queues[compute.queueFamilyIndex] # <<>>
    /\ Head(queues[compute.queueFamilyIndex]).frame
         = Head(queues[graphics.queueFamilyIndex]).frame + 1

\* C2: every compute submission waits on graphics.semaphore and signals
\* compute.semaphore, every graphics submission waits on compute.semaphore and
\* presentComplete and signals graphics.semaphore and renderComplete; the wait
\* of frame n's compute batch consumes the priming signal (n = 1) or the signal
\* of frame n-1's graphics batch, the wait of frame n's graphics batch the signal
\* of frame n's compute batch.
C2_SubmissionSemaphores ==
    /\ \A p \in Pending :
         /\ BatchAt(p).kind = "compute" =>
              /\ GraphicsSemaphore \in BatchAt(p).wait
              /\ ComputeSemaphore \in BatchAt(p).signal
         /\ BatchAt(p).kind = "graphics" =>
              /\ {ComputeSemaphore, PresentComplete} \subseteq BatchAt(p).wait
              /\ {GraphicsSemaphore, RenderComplete} \subseteq BatchAt(p).signal
    /\ satisfied["compute"][1] > 0 =>
         satisfied["compute"][2] = IF satisfied["compute"][1] = 1
                                   THEN <<"prime", 0>>
                                   ELSE <<"graphics", satisfied["compute"][1] - 1>>
    /\ satisfied["graphics"][1] > 0 =>
         satisfied["graphics"][2] = <<"compute", satisfied["graphics"][1]>>

\* The last frame's compute and graphics batches have both started.
C2_Witness ==
    /\ satisfied["compute"][1] = LongFrames
    /\ satisfied["graphics"][1] = LongFrames
    /\ LongFrames >= 100

\* No compute or graphics batch is submitted and not completed.
NoFrameBatchPending ==
    \A p \in Pending : BatchAt(p).kind \notin {"compute", "graphics"}

\* C3: every compute batch and every graphics batch draw() submits completes:
\* whatever is pending, the queues reach a state with no such batch pending.
C3_EveryBatchCompletes == []<>NoFrameBatchPending

\* Every frame the host may submit has completed on both queues.
C3_Witness ==
    /\ done["compute"] = MaxFrames
    /\ done["graphics"] = MaxFrames
    /\ Differ

\* C4: when the first frame's compute submission is made, the priming batch has
\* signaled graphics.semaphore exactly once, the graphics queue is idle, nothing
\* waits on the semaphore; the first compute batch can start as soon as it is the
\* oldest of its queue, with no graphics batch having run.
C4_PrimedBeforeFirstDraw ==
    /\ done["prime"] <= 1
    /\ prepared => done["prime"] = 1
    /\ (pc = "draw" /\ frame = 1) =>
         /\ sem[GraphicsSemaphore] = <<"prime", 0>>
         /\ queues[graphics.queueFamilyIndex] = <<>>
         /\ \A p \in Pending : GraphicsSemaphore \notin BatchAt(p).wait
         /\ done["graphics"] = 0
    /\ \A q \in Families :
         (/\ queues[q] # <<>>
          /\ Head(queues[q]).kind = "compute"
          /\ Head(queues[q]).frame = 1
          /\ exec[q] = 0)
         => /\ \A s \in Head(queues[q]).wait : sem[s] # Unsignaled
            /\ done["graphics"] = 0

\* The host is about to make the first compute submission.
C4_Witness == pc = "draw" /\ frame = 1

FirstOf(cmds, op) ==
    IF \E i \in 1 .. Len(cmds) : cmds[i].op = op
    THEN CHOOSE i \in 1 .. Len(cmds) :
           /\ cmds[i].op = op
           /\ \A j \in 1 .. (i - 1) : cmds[j].op # op
    ELSE 0
LastOf(cmds, op) ==
    IF \E i \in 1 .. Len(cmds) : cmds[i].op = op
    THEN CHOOSE i \in 1 .. Len(cmds) :
           /\ cmds[i].op = op
           /\ \A j \in (i + 1) .. Len(cmds) : cmds[j].op # op
    ELSE 0

\* A barrier naming queue families is recorded before the first / after the last
\* command op of the command buffer.
BarrierBefore(cmds, op) ==
    \E i \in OwnershipBarriers(cmds) : i < FirstOf(cmds, op)
BarrierAfter(cmds, op) ==
    \E i \in OwnershipBarriers(cmds) : i > LastOf(cmds, op)

\* C5: each of the five ownership-transfer barriers (upload release, compute
\* acquire, compute release, graphics acquire, graphics release) is recorded if
\* and only if the graphics and compute queue family indices differ.
C5_BarriersIffFamiliesDiffer ==
    /\ \A p \in Pending :
         BatchAt(p).kind = "upload" =>
           (BarrierAfter(BatchAt(p).cmds, "copyBuffer") <=> Differ)
    /\ prepared =>
         /\ BarrierBefore(compute.commandBuffer, "dispatch") <=> Differ
         /\ BarrierAfter(compute.commandBuffer, "dispatch") <=> Differ
    /\ \A i \in 1 .. Len(drawCmdBuffers) :
         /\ BarrierBefore(drawCmdBuffers[i], "draw") <=> Differ
         /\ BarrierAfter(drawCmdBuffers[i], "draw") <=> Differ
    /\ (Configured /\ ~ Differ) =>
         /\ \A p \in Pending : OwnershipBarriers(BatchAt(p).cmds) = {}
         /\ OwnershipBarriers(compute.commandBuffer) = {}
         /\ \A i \in 1 .. Len(drawCmdBuffers) : OwnershipBarriers(drawCmdBuffers[i]) = {}

\* Everything is recorded, with two different families.
C5_Witness ==
    /\ prepared
    /\ Differ
    /\ Len(drawCmdBuffers) = SwapchainImages
    /\ Cardinality(OwnershipBarriers(compute.commandBuffer)) = 2

\* C6 (amended): with different families, each acquire executed follows a
\* release of the same (source, destination) pair with no ownership operation
\* between them, no two releases follow each other (so each release is followed
\* by at most one acquire, its own), every ownership barrier runs on its source
\* or its destination family, and the buffer is written only while the compute
\* family owns it and read as vertex data only while the graphics family does.
C6_OwnershipHandoff ==
    (Configured /\ Differ) =>
        /\ ownOps[2][1] = "acquire" =>
             ownOps[1] = <<"release", ownOps[2][2], ownOps[2][3]>>
        /\ ownOps[2][1] = "release" => ownOps[1][1] \in {"none", "acquire"}
        /\ ownOps[2][1] # "foreign"
        /\ \A q \in Families :
             /\ (Writing(q) /\ Current(q).op = "dispatch") => owner = "Compute"
             /\ Reading(q) => owner = "Graphics"
             /\ (Running(q) /\ IsOwnershipTransfer(Current(q))) =>
                  owner = IF OwnershipOp(q, Current(q)) = "release"
                          THEN Role(q) ELSE "Transferring"

\* C6 as stated: in addition every release is followed by its acquire, so when
\* the run is over no release is left without one.
C6_EveryReleaseAcquired ==
    /\ C6_OwnershipHandoff
    /\ (Differ /\ pc = "done") => ownOps[2][1] # "release"

\* The second frame's compute pass is writing, on its own queue family.
C6_Witness ==
    /\ Differ
    /\ Writing(compute.queueFamilyIndex)
    /\ Current(compute.queueFamilyIndex).op = "dispatch"
    /\ Head(queues[compute.queueFamilyIndex]).frame = 2

\* C7: compute and graphics batches start in strict alternation, beginning with
\* a compute batch after the upload; with one queue family for both roles no
\* command buffer holds an ownership barrier and the submissions still wait on
\* and signal the two semaphores.
C7_StrictAlternation ==
    /\ execs[2] # "none" => (execs[1] # execs[2] /\ done["upload"] = 1)
    /\ (execs[1] = "none" /\ execs[2] # "none") => execs[2] = "compute"
    /\ (Configured /\ ~ Differ) =>
         \A p \in Pending :
           /\ OwnershipBarriers(BatchAt(p).cmds) = {}
           /\ BatchAt(p).kind = "compute" =>
                (GraphicsSemaphore \in BatchAt(p).wait
                 /\ ComputeSemaphore \in BatchAt(p).signal)
           /\ BatchAt(p).kind = "graphics" =>
                (ComputeSemaphore \in BatchAt(p).wait
                 /\ GraphicsSemaphore \in BatchAt(p).signal)

\* On one queue family, the second frame's compute batch has started after the
\* first frame's graphics batch.
C7_Witness ==
    /\ ~ Differ
    /\ execs = <<"graphics", "compute">>
    /\ satisfied["compute"][1] = 2

\* C8: a failed submission or a failed recording of a command buffer ends the
\* process at that step, and no submitted batch carries a command buffer whose
\* recording failed.
C8_FailureIsFatal ==
    /\ failed => pc = "aborted"
    /\ \A p \in Pending : BatchAt(p).valid

\* The objects a submitted batch uses.
Uses(b) ==
    IF b.kind = "compute"
    THEN {"storageBuffer", "compute.uniformBuffer", "compute.commandPool",
          "compute.pipelineLayout", "compute.pipelineCalculate",
          "compute.pipelineIntegrate", "compute.descriptorSetLayout",
          "graphics.semaphore", "compute.semaphore"}
    ELSE IF b.kind = "graphics"
    THEN {"storageBuffer", "graphics.uniformBuffer", "graphics.pipeline",
          "graphics.pipelineLayout", "graphics.descriptorSetLayout",
          "textures.gradient", "textures.particle",
          "graphics.semaphore", "compute.semaphore"}
    ELSE IF b.kind = "upload" THEN {"storageBuffer"}
    ELSE IF b.kind = "prime" THEN {"graphics.semaphore"}
    ELSE {}

CeilDiv(n, d) == (n + d - 1) \div d

FrameOperations ==
    <<"updateComputeUniformBuffers", "updateGraphicsUniformBuffers",
      "vkQueueSubmit(compute.queue)", "prepareFrame",
      "vkQueueSubmit(graphicQueue)", "submitFrame">>

\* The operations of the current render() call that follow pc.
OperationsDone ==
    IF pc = "updateGraphicsUniformBuffers" THEN 1
    ELSE IF pc = "draw" THEN 2
    ELSE IF pc = "prepareFrame" THEN 3
    ELSE IF pc = "submitGraphics" THEN 4
    ELSE IF pc = "submitFrame" THEN 5
    ELSE IF frame > 0 THEN 6
    ELSE 0

\* Batches of a kind the host has submitted so far.
Submitted(kind) ==
    done[kind] + Cardinality({p \in Pending : BatchAt(p).kind = kind})

\* The render() calls that have made operation k.
CallsPast(k) == IF Len(hostOps) >= k THEN frame ELSE frame - 1

\* C11: in each render() call made while prepared is true the host writes
\* ComputeParameters, writes ViewParameters, submits the compute command buffer,
\* acquires the next image, submits the graphics command buffer and presents, in
\* this order and once each; in the frame loop nothing else is submitted to a
\* queue (one compute, one graphics, one present batch per call, and the one
\* upload and the one priming batch of the preparation).
C11_FrameOperationOrder ==
    /\ hostOps = SubSeq(FrameOperations, 1, OperationsDone)
    /\ frame > 0 =>
         /\ compute.uniformBuffer = frame
         /\ graphics.uniformBuffer = CallsPast(2)
         /\ Submitted("compute") = CallsPast(3)
         /\ Submitted("graphics") = CallsPast(5)
         /\ Submitted("present") = CallsPast(6)
    /\ prepared =>
         /\ Submitted("upload") = 1
         /\ Submitted("prime") = 1
         /\ Submitted("compute") + Submitted("graphics") + Submitted("present")
              <= 3 * frame

\* The second render() call has returned.
C11_Witness ==
    /\ pc = "renderLoop"
    /\ frame = 2
    /\ hostOps = FrameOperations

IsDispatch(c, pipeline) == c.op = "dispatch" /\ c.pipeline = pipeline

\* The barrier of buildComputeCommandBuffer between the two dispatches.
IsIntraQueueBarrier(c) ==
    /\ c.op = "pipelineBarrier"
    /\ c.srcAccessMask = "SHADER_WRITE"
    /\ c.dstAccessMask = "SHADER_READ"
    /\ c.srcQueueFamilyIndex = VK_QUEUE_FAMILY_IGNORED
    /\ c.dstQueueFamilyIndex = VK_QUEUE_FAMILY_IGNORED

\* In cmds the Calculate dispatch, one intra-queue barrier and the Integrate
\* dispatch follow each other.
SeparatedByBarrier(cmds) ==
    \E i \in 1 .. (Len(cmds) - 2) :
        /\ IsDispatch(cmds[i], "pipelineCalculate")
        /\ IsIntraQueueBarrier(cmds[i + 1])
        /\ IsDispatch(cmds[i + 2], "pipelineIntegrate")
        /\ \A j \in 1 .. Len(cmds) :
             cmds[j].op = "dispatch" => j \in {i, i + 2}

IsBarrier(c, srcAccess, dstAccess, src, dst) ==
    /\ c.op = "pipelineBarrier"
    /\ c.srcAccessMask = srcAccess
    /\ c.dstAccessMask = dstAccess
    /\ c.srcQueueFamilyIndex = src
    /\ c.dstQueueFamilyIndex = dst

\* [acquire graphics->compute, Calculate, barrier, Integrate, release
\* compute->graphics]
BracketedCompute(cmds, g, c) ==
    /\ Len(cmds) = 5
    /\ IsBarrier(cmds[1], "0", "SHADER_WRITE", g, c)
    /\ IsDispatch(cmds[2], "pipelineCalculate")
    /\ IsIntraQueueBarrier(cmds[3])
    /\ IsDispatch(cmds[4], "pipelineIntegrate")
    /\ IsBarrier(cmds[5], "SHADER_WRITE", "0", c, g)

\* [acquire compute->graphics, draw, release graphics->compute]
BracketedDraw(cmds, g, c) ==
    /\ Len(cmds) = 3
    /\ IsBarrier(cmds[1], "0", "VERTEX_ATTRIBUTE_READ", c, g)
    /\ cmds[2].op = "draw"
    /\ cmds[2].count = numParticles
    /\ IsBarrier(cmds[3], "VERTEX_ATTRIBUTE_READ", "0", g, c)

\* C13: with different queue families the compute command buffer is the acquire
\* (no access to shader write), the two dispatches with their barrier, and the
\* release (shader write to no access); every draw command buffer is the acquire
\* (no access to vertex-attribute read), the draw of the particles, and the
\* release (vertex-attribute read to no access); nothing that accesses the
\* buffer is recorded before the acquire or after the release.
C13_AccessBracketedByBarriers ==
    (Configured /\ Differ) =>
        /\ prepared =>
             BracketedCompute(compute.commandBuffer, graphics.queueFamilyIndex,
                              compute.queueFamilyIndex)
        /\ \A i \in 1 .. Len(drawCmdBuffers) :
             BracketedDraw(drawCmdBuffers[i], graphics.queueFamilyIndex,
                           compute.queueFamilyIndex)
        /\ \A p \in Pending :
             /\ BatchAt(p).kind = "compute" =>
                  BracketedCompute(BatchAt(p).cmds, graphics.queueFamilyIndex,
                                   compute.queueFamilyIndex)
             /\ BatchAt(p).kind = "graphics" =>
                  BracketedDraw(BatchAt(p).cmds, graphics.queueFamilyIndex,
                                compute.queueFamilyIndex)

\* With different families, the release barrier of a draw command buffer is
\* executing while the next frame's compute batch is queued.
C13_Witness ==
    /\ Differ
    /\ Running(graphics.queueFamilyIndex)
    /\ Head(queues[graphics.queueFamilyIndex]).kind = "graphics"
    /\ exec[graphics.queueFamilyIndex] = 3
    /\ queues[compute.queueFamilyIndex] # <<>>

\* The compute batch of the first frame is executing its command number k.
FirstComputeAt(q, k) ==
    /\ Running(q)
    /\ Head(queues[q]).kind = "compute"
    /\ Head(queues[q]).frame = 1
    /\ exec[q] = k

\* C14: the particle array is uploaded once, by a copy submitted in the
\* preparation and executed before any compute submission; with different queue
\* families the upload command buffer is the copy followed by a release barrier
\* graphics -> compute, the acquire of the first compute batch follows that
\* release, and the first Calculate dispatch runs after the copy with the
\* compute family owning the buffer.
C14_UploadedOnceBeforeCompute ==
    /\ Submitted("upload") <= 1
    /\ pc \notin {"prepareForRendering", "prepareStorageBuffers"} =>
         Submitted("upload") = 1
    /\ Submitted("compute") > 0 => (prepared /\ done["upload"] = 1)
    /\ \A p \in Pending :
         BatchAt(p).kind = "upload" =>
            /\ BatchAt(p).cmds[1].op = "copyBuffer"
            /\ ~ prepared
            /\ IF Differ
               THEN /\ Len(BatchAt(p).cmds) = 2
                    /\ BatchAt(p).cmds[2].op = "pipelineBarrier"
                    /\ BatchAt(p).cmds[2].srcQueueFamilyIndex = graphics.queueFamilyIndex
                    /\ BatchAt(p).cmds[2].dstQueueFamilyIndex = compute.queueFamilyIndex
               ELSE Len(BatchAt(p).cmds) = 1
    /\ \A q \in Families :
         /\ (Differ /\ FirstComputeAt(q, 1)) =>
              /\ ownOps[2] = <<"release", graphics.queueFamilyIndex,
                               compute.queueFamilyIndex>>
              /\ ownOps[1][1] = "none"
              /\ owner = "Transferring"
         /\ (FirstComputeAt(q, 1) \/ FirstComputeAt(q, 2)) =>
              /\ done["upload"] = 1
              /\ done["graphics"] = 0
         /\ (Differ /\ FirstComputeAt(q, 2)) => owner = "Compute"

\* With different families, the first Calculate dispatch is in progress.
C14_Witness ==
    /\ Differ
    /\ FirstComputeAt(compute.queueFamilyIndex, 2)
    /\ IsDispatch(Current(compute.queueFamilyIndex), "pipelineCalculate")

\* C15: while a dispatch of frame n's compute batch is in progress, the uniform
\* buffer of the compute pass holds what the host wrote for frame n: the host
\* does not overwrite it for a later frame before that batch has completed.
C15_ParametersOfOwnFrame ==
    \A q \in Families :
        (/\ Running(q)
         /\ Head(queues[q]).kind = "compute"
         /\ Current(q).op = "dispatch")
        => compute.uniformBuffer = Head(queues[q]).frame

\* The host is inside a render() call.
InFrame ==
    pc \in {"updateGraphicsUniformBuffers", "draw", "prepareFrame",
            "submitGraphics", "submitFrame"}

\* C16: a render() call made while paused writes deltaT = 0 (a call made while
\* not paused writes frameTimer * 0.05) and performs the same operations; every
\* compute batch carries the whole compute command buffer, waits on
\* graphics.semaphore and signals compute.semaphore, every graphics batch waits
\* on compute.semaphore and presentComplete and signals graphics.semaphore and
\* renderComplete, and compute and graphics batches keep alternating, each
\* consuming the signal of its predecessor, whatever the user pauses or resumes.
C16_PausedFramesKeepProtocol ==
    /\ InFrame => compute.deltaT = IF paused THEN 0 ELSE frameTimer * 5
    /\ hostOps = SubSeq(FrameOperations, 1, OperationsDone)
    /\ \A p \in Pending :
         /\ BatchAt(p).kind = "compute" =>
              /\ BatchAt(p).wait = {GraphicsSemaphore}
              /\ BatchAt(p).signal = {ComputeSemaphore}
              /\ BatchAt(p).cmds = compute.commandBuffer
              /\ SeparatedByBarrier(BatchAt(p).cmds)
              /\ Cardinality(OwnershipBarriers(BatchAt(p).cmds))
                   = IF Differ THEN 2 ELSE 0
         /\ BatchAt(p).kind = "graphics" =>
              /\ BatchAt(p).wait = {ComputeSemaphore, PresentComplete}
              /\ BatchAt(p).signal = {GraphicsSemaphore, RenderComplete}
    /\ frame > 0 =>
         /\ Submitted("compute") = CallsPast(3)
         /\ Submitted("graphics") = CallsPast(5)
    /\ execs[2] # "none" => execs[1] # execs[2]
    /\ satisfied["compute"][1] > 1 =>
         satisfied["compute"][2] = <<"graphics", satisfied["compute"][1] - 1>>
    /\ satisfied["graphics"][1] > 0 =>
         satisfied["graphics"][2] = <<"compute", satisfied["graphics"][1]>>

\* The second render() call was made while paused with a positive frame time,
\* and its compute batch has started after the first frame's graphics batch.
C16_Witness ==
    /\ paused
    /\ frameTimer > 0
    /\ pc = "submitGraphics"
    /\ frame = 2
    /\ compute.deltaT = 0
    /\ satisfied["compute"] = <<2, <<"graphics", 1>>>>

\* Two particles of the array are at the same place.
Coincide(P) ==
    \E i, j \in 1 .. Len(P) :
        /\ i # j
        /\ \A k \in 1 .. 3 : P[i].pos[k] = P[j].pos[k]

Assigned == {k \in 1 .. Len(particleBuffer) : written[k] > 0}

\* C18: every particle the initializer has written has a mass above 0 and not
\* above the heavy center's 90000, whatever the random source returned.
C18_MassPositive ==
    \A k \in Assigned :
        /\ particleBuffer[k].pos[4].v > 0
        /\ particleBuffer[k].pos[4].v <= 90000 * 2

\* C19: the particle array has attractorCount * particlesPerAttractor elements;
\* the loop assigns the elements in index order, each once (when it is over
\* every element has been assigned exactly once); particleCount is then the
\* length of the array; the first particle of every group has velocity (0, 0, 0).
C19_ArrayFilledOnce ==
    pc \in {"initParticles", "particlesInitialized"} =>
        /\ Len(particleBuffer) = Len(attractors) * particlesPerAttractor
        /\ numParticles = Len(particleBuffer)
        /\ \A k \in 1 .. Len(particleBuffer) :
             written[k] = IF k <= loop.i * particlesPerAttractor + loop.j THEN 1 ELSE 0
        /\ pc = "particlesInitialized" =>
             /\ \A k \in 1 .. Len(particleBuffer) : written[k] = 1
             /\ compute.particleCount = Len(particleBuffer)
             /\ \A i \in 0 .. (Len(attractors) - 1) :
                  particlesPerAttractor > 0 =>
                     /\ particleBuffer[i * particlesPerAttractor + 1].vel[1] = F(0)
                     /\ particleBuffer[i * particlesPerAttractor + 1].vel[2] = F(0)
                     /\ particleBuffer[i * particlesPerAttractor + 1].vel[3] = F(0)

\* The initializer has filled an array of MaxInitPerAttractor particles per
\* attractor.
C19_Witness ==
    /\ pc = "particlesInitialized"
    /\ particlesPerAttractor = MaxInitPerAttractor
    /\ Len(particleBuffer) = Len(attractors) * MaxInitPerAttractor
    /\ particleBuffer[Len(particleBuffer)] # ZeroParticle

\* C20: a second run of the initializer in benchmark mode (or with the same
\* seed) produces the particle array of the first run, element for element.
C20_SameSeedSameParticles ==
    (/\ run = 2
     /\ pc = "particlesInitialized"
     /\ benchmark \/ seedTime = firstRun.time)
    => particleBuffer = firstRun.particleBuffer

\* In benchmark mode, the second run has finished at a later time than the
\* first, with particles drawn from the random source.
C20_Witness ==
    /\ run = 2
    /\ pc = "particlesInitialized"
    /\ benchmark
    /\ seedTime # firstRun.time
    /\ particlesPerAttractor > 1
    /\ particleBuffer = firstRun.particleBuffer

\* The particle indices the invocations of a dispatch are launched for:
\* vkCmdDispatch(count, 1, 1) launches count workgroups of WorkgroupSize
\* invocations, one global index each.
Invocations(c) == 0 .. (c.count * WorkgroupSize - 1)

\* The particles a dispatch processes: the shader leaves an invocation whose
\* index is not below particleCount at once.
Processed(c, particleCount) == {g \in Invocations(c) : g < particleCount}

C21_AlignedCountsCovered ==
    (prepared /\ compute.particleCount % WorkgroupSize = 0) =>
        \A i \in 1 .. Len(compute.commandBuffer) :
            compute.commandBuffer[i].op = "dispatch" =>
                compute.commandBuffer[i].count * WorkgroupSize = compute.particleCount

\* The two semaphores between the compute and the graphics submissions.
FrameSemaphores == {GraphicsSemaphore, ComputeSemaphore}

\* Queue q is at a batch that has not started and waits on semaphore s.
WaitingOn(q, s) ==
    /\ queues[q] # <<>>
    /\ exec[q] = 0
    /\ s \in Head(queues[q]).wait

\* The submitted batches whose wait on semaphore s is still to come.
WaitsSubmitted(s) ==
    {p \in Pending : /\ s \in BatchAt(p).wait
                     /\ ~ (p[2] = 1 /\ exec[p[1]] > 0)}

\* The signals of s submitted and not yet made, plus the one s holds.
SignalsOutstanding(s) ==
    Cardinality({p \in Pending : s \in BatchAt(p).signal})
    + (IF sem[s] = Unsignaled THEN 0 ELSE 1)

\* A step signals s only when s is unsignaled.
SignaledOnlyWhenUnsignaled ==
    \A s \in FrameSemaphores :
        (sem'[s] # sem[s] /\ sem'[s] # Unsignaled) => sem[s] = Unsignaled

\* No two queues wait on one semaphore, every submitted wait has a signal of
\* its own submitted before it, and when the run is over every signal has been
\* consumed but the last one of graphics.semaphore.
SemaphoreDiscipline ==
    /\ \A s \in FrameSemaphores :
         /\ Cardinality({q \in Families : WaitingOn(q, s)}) <= 1
         /\ Cardinality(WaitsSubmitted(s)) <= SignalsOutstanding(s)
    /\ pc = "done" =>
         /\ done["compute"] = frame
         /\ done["graphics"] = frame
         /\ sem[ComputeSemaphore] = Unsignaled
         /\ sem[GraphicsSemaphore] = IF frame = 0 THEN <<"prime", 0>>
                                     ELSE <<"graphics", frame>>

\* C22 (amended): graphics.semaphore and compute.semaphore are never signaled
\* while they hold a signal, at no time are two queues waiting on the same
\* one, each submitted batch that waits on one has a signal of its own (so
\* each signal is consumed by at most one batch), and every signal is consumed
\* but the last signal of graphics.semaphore, which the run leaves behind.
C22_BinarySemaphoreDiscipline ==
    /\ []SemaphoreDiscipline
    /\ [][SignaledOnlyWhenUnsignaled]_vars

\* C22 as stated: in addition every signal is consumed, so none is left when
\* the run is over, and no two submitted batches name the same semaphore in
\* their waits.
C22_EverySignalConsumed ==
    /\ SemaphoreDiscipline
    /\ pc = "done" => \A s \in FrameSemaphores : sem[s] = Unsignaled
    /\ \A s \in FrameSemaphores : Cardinality(WaitsSubmitted(s)) <= 1

\* The host is ahead of the device: two compute batches are submitted, the
\* first has not started, and graphics.semaphore holds the priming signal.
C22_Witness ==
    /\ Cardinality({p \in Pending : BatchAt(p).kind = "compute"}) = 2
    /\ exec[compute.queueFamilyIndex] = 0
    /\ sem[GraphicsSemaphore] = <<"prime", 0>>
    /\ Differ

\* render() has written neither parameter buffer and submitted nothing.
NothingRendered ==
    /\ frame = 0
    /\ hostOps = <<>>
    /\ compute.uniformBuffer = 0
    /\ graphics.uniformBuffer = 0
    /\ \A p \in Pending : BatchAt(p).kind \in {"upload", "prime"}
    /\ \A k \in {"compute", "graphics", "present"} : done[k] = 0

\* The particle upload, the priming submission, the recording of the draw
\* command buffers, the creation of compute.semaphore and the recording of the
\* compute command buffer have completed.
PreparationComplete ==
    /\ done["upload"] = 1
    /\ done["prime"] = 1
    /\ GraphicsSemaphore \in created
    /\ Len(drawCmdBuffers) = SwapchainImages
    /\ \A i \in 1 .. Len(drawCmdBuffers) : drawCmdBuffers[i] # <<>>
    /\ ComputeSemaphore \in created
    /\ compute.commandBuffer # <<>>
    /\ compute.recorded

\* The first part of C23 as a property of steps: a render() call made while
\* prepared is false leaves every variable of the program as it was.
C23_EarlyCallChangesNothing ==
    [][earlyCalls' # earlyCalls =>
         UNCHANGED <<pc, prepared, deviceQF, particlesPerAttractor, numParticles,
                     graphics, compute, drawCmdBuffers, currentCmdBufferIndex, frame,
                     queues, exec, sem, imgPending, owner, ownOps, execs, satisfied,
                     done, destroyed, failed, hostOps, paused, frameTimer, created>>]_vars

\* C23 without its last clause: while prepared is false nothing is rendered,
\* and prepared is set only after the upload, the priming, the draw command
\* buffers and the creation of both semaphores.
C23_PreparedAfterPreparation ==
    /\ ~ prepared => NothingRendered
    /\ prepared =>
         /\ done["upload"] = 1
         /\ done["prime"] = 1
         /\ Len(drawCmdBuffers) = SwapchainImages
         /\ FrameSemaphores \subseteq created
         /\ compute.commandBuffer # <<>>

\* C23: while prepared is false render() writes and submits nothing; prepared
\* is true only when the whole preparation has completed; and every compute or
\* graphics batch submitted carries a recorded command buffer and names only
\* semaphores that exist, with graphics.semaphore primed.
C23_RenderOnlyWhenPrepared ==
    /\ ~ prepared => NothingRendered
    /\ prepared => PreparationComplete
    /\ \A p \in Pending :
         BatchAt(p).kind \in {"compute", "graphics"} =>
             /\ BatchAt(p).cmds # <<>>
             /\ BatchAt(p).valid
             /\ (BatchAt(p).wait \cup BatchAt(p).signal) \cap FrameSemaphores
                    \subseteq created
             /\ done["prime"] = 1

\* The submissions of the compute command buffer that have not completed.
ComputePending == {p \in Pending : BatchAt(p).kind = "compute"}

\* C24: the compute command buffer is never submitted while an earlier
\* submission of it has not completed: at most one of its submissions is
\* pending at any time.
C24_NotResubmittedWhilePending == Cardinality(ComputePending) <= 1

\* The group (attractor index) of element k of the particle array.
GroupOf(k) == (k - 1) \div particlesPerAttractor

\* C25: after initialization the gradient index of every particle of group i,
\* the heavy centre included, is i / attractorCount (here in thousandths,
\* rounded down), a number in [0, 1); two particles carry the same gradient
\* index exactly when they are of the same group.
C25_GradientPerGroup ==
    pc = "particlesInitialized" =>
        /\ \A k \in 1 .. Len(particleBuffer) :
             LET g == particleBuffer[k].vel[4] IN
                /\ ~ g.nan
                /\ 0 <= g.v /\ g.v < 1000
                /\ g.v * Len(attractors) <= GroupOf(k) * 1000
                /\ GroupOf(k) * 1000 < (g.v + 1) * Len(attractors)
                /\ GroupOf(k) \in 0 .. (Len(attractors) - 1)
        /\ \A k1, k2 \in 1 .. Len(particleBuffer) :
             (GroupOf(k1) = GroupOf(k2))
                <=> (particleBuffer[k1].vel[4] = particleBuffer[k2].vel[4])

\* The second run has filled groups of a heavy centre and sampled particles;
\* the heavy centre and the last particle of the last group carry 5/6.
C25_Witness ==
    /\ pc = "particlesInitialized"
    /\ run = 2
    /\ particlesPerAttractor >= 2
    /\ particleBuffer[Len(particleBuffer)].vel[4] = F(833)
    /\ particleBuffer[Len(particleBuffer) - particlesPerAttractor + 1].vel[4] = F(833)
    /\ particleBuffer[Len(particleBuffer) - particlesPerAttractor + 1].pos[4] = F(180000)
====
